---- MODULE Spec2Model ----
(***************************************************************************)
(* Model of the Pi Builder Python SDK                                      *)
(* (packages/core/src/api/sdk_python.py): the request engine               *)
(* PiBuilderSDK._request with its bounded retry loop and backoff, and the  *)
(* resource facade built on it.                                            *)
(*                                                                         *)
(* Values.  Every Python / JSON value is a record [t, s, items]: t is the  *)
(* type tag, s the payload of a string, items the elements of a list, the  *)
(* pairs of a mapping (in insertion order) or the fields of a dataclass.   *)
(* Text that the code builds by concatenation (URLs, paths, header         *)
(* values) is a sequence of string pieces, concatenated with \o.           *)
(***************************************************************************)
EXTENDS Integers, Sequences, FiniteSets, TLC

VARIABLES
    api_url,     \* self.api_url
    api_key,     \* self.api_key
    timeout,     \* self.timeout
    retries,     \* self.retries
    op,          \* the facade method in progress
    args,        \* its arguments
    url,         \* _request: url
    headers,     \* _request: headers
    body_data,   \* _request: body_data
    last_error,  \* _request: last_error
    attempt,     \* _request: attempt (loop index)
    pc,          \* position of the call in progress
    resp,        \* what the server answered to the latest attempt
    uniform,     \* the server gave every attempt of the call the same answer
    method,      \* _request: method
    path,        \* _request: path
    body,        \* _request: body
    log,         \* the urlopen and time.sleep calls of the call, in order
    result,      \* how _request ended: the value returned or the exception raised
    out,         \* how the facade method ended
    kinds,       \* the kinds of failure the attempts of the call have met
    earlier      \* a call made before this one ended in a raise

vars == <<api_url, api_key, timeout, retries, op, args, url, headers, body_data,
          last_error, attempt, pc, resp, uniform, method, path, body, log, result, out,
          kinds, earlier>>

config == <<api_url, api_key, timeout, retries>>

----------------------------------------------------------------------------
(* Bounds *)

MaxRetries == 3

----------------------------------------------------------------------------
(* Python and JSON values *)

None == [t |-> "null", s |-> "", items |-> <<>>]

Bool(b) == [t |-> "bool", s |-> IF b THEN "true" ELSE "false", items |-> <<>>]

Str(x) == [t |-> "str", s |-> x, items |-> <<>>]

List(seq) == [t |-> "list", s |-> "", items |-> seq]

Pair(k, v) == [t |-> "pair", s |-> k, items |-> <<v>>]

Dict(pairs) == [t |-> "dict", s |-> "", items |-> pairs]

\* bool(v): None, False, "", [] and {} are falsy, everything else is truthy
Truthy(v) ==
    CASE v.t = "null" -> FALSE
      [] v.t = "bool" -> v.s = "true"
      [] v.t = "str"  -> v.s # ""
      [] v.t = "list" -> v.items # <<>>
      [] v.t = "dict" -> v.items # <<>>
      [] OTHER        -> TRUE

Keys(d) == {d.items[i].s : i \in 1..Len(d.items)}

\* d.get(key, default) on a mapping d
Get(d, key, default) ==
    IF key \in Keys(d)
    THEN (CHOOSE p \in {d.items[i] : i \in 1..Len(d.items)} : p.s = key).items[1]
    ELSE default

\* d[key] = v on a mapping that has no such key yet: appended, in insertion order
SetItem(d, key, v) == Dict(Append(d.items, Pair(key, v)))

\* str(v) of a value used as an exception argument
PyStr(v) ==
    CASE v.t = "str"  -> v.s
      [] v.t = "null" -> "None"
      [] v.t = "bool" -> IF v.s = "true" THEN "True" ELSE "False"
      [] OTHER        -> "<repr>"

\* a piece of text: the empty string contributes nothing to a concatenation
Text(x) == IF x = "" THEN <<>> ELSE <<x>>

\* f'{v}' of a str value
Fmt(v) == Text(PyStr(v))

RECURSIVE Join(_, _)
\* sep.join(parts)
Join(sep, parts) ==
    IF parts = <<>> THEN <<>>
    ELSE IF Len(parts) = 1 THEN parts[1]
    ELSE parts[1] \o sep \o Join(sep, Tail(parts))

RECURSIVE RStrip(_, _)
\* text.rstrip(ch)
RStrip(text, ch) ==
    IF text # <<>> /\ text[Len(text)] = ch
    THEN RStrip(SubSeq(text, 1, Len(text) - 1), ch)
    ELSE text

----------------------------------------------------------------------------
(* Exceptions *)

Exc(type, arg) == [type |-> type, arg |-> arg]

\* last_error = None
NoError == Exc("None", None)

\* str(e)
Message(e) == PyStr(e.arg)

\* Exception('Request failed'), the fallback of the final raise
GenericFailure == Exc("Exception", Str("Request failed"))

----------------------------------------------------------------------------
(* Dataclasses *)

\* the fields of a dataclass, in declaration order
Fields(cls) ==
    IF cls = "Agent"
    THEN <<"id", "name", "type", "status", "capabilities">>
    ELSE <<"id", "name", "status", "priority", "created_at", "completed_at">>

\* the fields that have no default
Required(cls) ==
    IF cls = "Agent"
    THEN {"id", "name", "type", "status", "capabilities"}
    ELSE {"id", "name", "status", "priority", "created_at"}

FieldSet(cls) == {Fields(cls)[i] : i \in 1..Len(Fields(cls))}

\* cls(**m) raises TypeError unless m is a mapping that names every required
\* field and no unknown one
Constructible(cls, m) ==
    /\ m.t = "dict"
    /\ Keys(m) \subseteq FieldSet(cls)
    /\ Required(cls) \subseteq Keys(m)

\* cls(**m): the record, its fields in declaration order, defaults filled in
Construct(cls, m) ==
    [t |-> cls, s |-> "",
     items |-> [i \in 1..Len(Fields(cls)) |->
                   Pair(Fields(cls)[i], Get(m, Fields(cls)[i], None))]]

ConstructionError == Exc("TypeError", Str("__init__() got unexpected or missing arguments"))

\* the outcome of a facade method: a value returned or an exception raised
Returned(v) == [kind |-> "value", value |-> v, error |-> NoError]

Raised(e) == [kind |-> "error", value |-> None, error |-> e]

NoResult == [kind |-> "none", value |-> None, error |-> NoError]

\* variant: the comprehension runs over data itself, without the "or []"
ListOfData(cls, data) ==
    IF data.t = "list" /\ \A i \in 1..Len(data.items) : Constructible(cls, data.items[i])
    THEN Returned(List([i \in 1..Len(data.items) |-> Construct(cls, data.items[i])]))
    ELSE Raised(ConstructionError)

\* [cls(**x) for x in data or []]
ListOf(cls, data) ==
    LET src == IF Truthy(data) THEN data ELSE List(<<>>)
    IN  IF src.t = "list" /\ \A i \in 1..Len(src.items) : Constructible(cls, src.items[i])
        THEN Returned(List([i \in 1..Len(src.items) |-> Construct(cls, src.items[i])]))
        ELSE Raised(ConstructionError)

\* variant: a missing field is filled with None instead of raising
OneOfLenient(cls, data) ==
    IF data.t = "dict"
    THEN Returned(Construct(cls, data))
    ELSE Raised(ConstructionError)

\* cls(**data)
OneOf(cls, data) ==
    IF Constructible(cls, data)
    THEN Returned(Construct(cls, data))
    ELSE Raised(ConstructionError)

\* data.get('providers', [])
Providers(data) ==
    IF data.t = "dict"
    THEN Returned(Get(data, "providers", List(<<>>)))
    ELSE Raised(Exc("AttributeError", Str("object has no attribute 'get'")))

\* what each facade method does with the data _request returned
Facade(o, data) ==
    CASE o = "list_agents"    -> ListOf("Agent", data)
      [] o = "get_agent"      -> OneOf("Agent", data)
      [] o = "create_agent"   -> OneOf("Agent", data)
      [] o = "list_tasks"     -> ListOf("Task", data)
      [] o = "get_task"       -> OneOf("Task", data)
      [] o = "create_task"    -> OneOf("Task", data)
      [] o = "update_task"    -> OneOf("Task", data)
      [] o = "list_providers" -> Providers(data)
      [] OTHER                -> Returned(data)

----------------------------------------------------------------------------
(* The server: what one attempt can meet *)

Absent == [t |-> "absent", s |-> "", items |-> <<>>]

\* the JSON object {success: s, data: d, error: e}, a field left out when Absent
Envelope(s, d, e) ==
    Dict((IF s = Absent THEN <<>> ELSE <<Pair("success", s)>>)
         \o (IF d = Absent THEN <<>> ELSE <<Pair("data", d)>>)
         \o (IF e = Absent THEN <<>> ELSE <<Pair("error", e)>>))

Agent1 ==
    Dict(<<Pair("id", Str("a1")), Pair("name", Str("bot")), Pair("type", Str("custom")),
           Pair("status", Str("idle")), Pair("capabilities", List(<<>>))>>)

Agent2 ==
    Dict(<<Pair("id", Str("a2")), Pair("name", Str("dev")), Pair("type", Str("worker")),
           Pair("status", Str("busy")), Pair("capabilities", List(<<Str("code")>>))>>)

\* an agent mapping without its status field
AgentBad ==
    Dict(<<Pair("id", Str("a3")), Pair("name", Str("x")), Pair("type", Str("custom")),
           Pair("capabilities", List(<<>>))>>)

Task1 ==
    Dict(<<Pair("id", Str("t1")), Pair("name", Str("build")), Pair("status", Str("open")),
           Pair("priority", Str("high")), Pair("created_at", Str("2024-01-01"))>>)

Task2 ==
    Dict(<<Pair("id", Str("t2")), Pair("name", Str("test")), Pair("status", Str("done")),
           Pair("priority", Str("low")), Pair("created_at", Str("2024-01-02")),
           Pair("completed_at", Str("2024-01-03"))>>)

ProvidersData == Dict(<<Pair("providers", List(<<Str("p1"), Str("p2")>>))>>)

DataValues ==
    {None, List(<<>>), Dict(<<>>),
     Agent1, AgentBad, List(<<Agent1, Agent2>>), List(<<Agent2, Agent1>>),
     List(<<Agent1, AgentBad>>),
     Task1, List(<<Task1, Task2>>), List(<<Task2, Task1>>),
     ProvidersData}

\* urlopen raised: connection failure, non-2xx status, timeout
TransportFailures ==
    {[kind |-> "transport", exc |-> Exc("URLError", Str("connection refused")), json |-> None],
     [kind |-> "transport", exc |-> Exc("HTTPError", Str("HTTP Error 500")), json |-> None]}

\* the body is not JSON: json.loads raised
MalformedBodies ==
    {[kind |-> "malformed", exc |-> Exc("JSONDecodeError", Str("Expecting value")), json |-> None]}

Parsed(j) == [kind |-> "json", exc |-> NoError, json |-> j]

FailureEnvelopes ==
    {Envelope(Bool(FALSE), Absent, Str("X")),
     Envelope(Bool(FALSE), Absent, Str("Y")),
     Envelope(Bool(FALSE), Agent1, Str("X")),
     Envelope(Bool(FALSE), Absent, Absent),
     Envelope(Bool(FALSE), Absent, None),
     Envelope(None, Absent, Str("X")),
     Envelope(Absent, Task1, Str("Y"))}

SuccessEnvelopes ==
    {Envelope(Bool(TRUE), d, Absent) : d \in DataValues}
    \cup {Envelope(Bool(TRUE), Absent, Absent),
          Envelope(Bool(TRUE), Agent2, Str("X")),
          Envelope(Str("yes"), Task2, Absent)}

\* a JSON body that is not an object
NonObjects == {List(<<Agent1>>)}

Responses ==
    TransportFailures \cup MalformedBodies
    \cup {Parsed(j) : j \in FailureEnvelopes \cup SuccessEnvelopes \cup NonObjects}

NoResponse == [kind |-> "none", exc |-> NoError, json |-> None]

\* the data the endpoint behind facade method o puts in a success=true envelope
DataFor(o) ==
    CASE o = "list_agents" ->
             {None, List(<<>>), List(<<Agent1, Agent2>>), List(<<Agent2, Agent1>>),
              List(<<Agent1, AgentBad>>), Agent1}
      [] o \in {"get_agent", "create_agent"} -> {Agent1, AgentBad, None}
      [] o = "list_tasks" ->
             {None, List(<<>>), List(<<Task1, Task2>>), List(<<Task2, Task1>>), Task1}
      [] o \in {"get_task", "create_task", "update_task"} -> {Task1, Dict(<<>>), None}
      [] o = "list_providers" -> {ProvidersData, Dict(<<>>), List(<<>>), None}
      [] OTHER -> {ProvidersData, Dict(<<>>), None}

\* what an attempt of facade method o can meet: any failure, and a success
\* envelope with the data of its endpoint, with no data, or with other fields
Answers ==
    [o \in {"list_agents", "get_agent", "create_agent", "list_tasks", "get_task",
             "create_task", "update_task", "list_providers", "get_metrics", "health"} |->
        Responses \ {Parsed(Envelope(Bool(TRUE), d, Absent)) : d \in DataValues \ DataFor(o)}]

----------------------------------------------------------------------------
(* _request *)

\* variant: the key is tested against None rather than for truth
HeadersIfNotNone(key) ==
    IF key # None
    THEN ("Authorization" :> (<<"Bearer ">> \o Fmt(key)))
         @@ ("Content-Type" :> <<"application/json">>)
    ELSE "Content-Type" :> <<"application/json">>

\* headers = {'Content-Type': 'application/json'}, plus Authorization if self.api_key
Headers(key) ==
    IF Truthy(key)
    THEN ("Authorization" :> (<<"Bearer ">> \o Fmt(key)))
         @@ ("Content-Type" :> <<"application/json">>)
    ELSE "Content-Type" :> <<"application/json">>

\* json.dumps(body).encode(): the bytes of the JSON text of body
JsonBytes(b) == [t |-> "bytes", s |-> "json", items |-> <<b>>]

\* variant: the body is tested against None rather than for truth
BodyDataIfNotNone(b) == IF b # None THEN JsonBytes(b) ELSE None

\* body_data = json.dumps(body).encode() if body else None
BodyData(b) == IF Truthy(b) THEN JsonBytes(b) ELSE None

\* variant: one iteration too many, range(self.retries + 1)
LoopRangeInclusive(n) == 0..n

\* range(self.retries)
LoopRange(n) == 0..(n - 1)

\* variant: the test lets the last attempt sleep too, attempt < self.retries
ShouldSleepAlways(a, n) == a < n

\* if attempt < self.retries - 1
ShouldSleep(a, n) == a < n - 1

\* variant: a product where the code has a power, (2 * attempt) * 0.1
DelayProduct(a) == (2 * a) * 100

\* delay = (2 ** attempt) * 0.1 seconds, here in milliseconds
Delay(a) == (2 ^ a) * 100

\* variant: an envelope that carries an error field counts as a failure
IsSuccessWithoutError(data) ==
    Truthy(Get(data, "success", None)) /\ "error" \notin Keys(data)

\* if not data.get('success')
IsSuccess(data) == Truthy(Get(data, "success", None))

\* variant: the server's message is dropped for the generic one
LogicalErrorGeneric(data) == Exc("ValueError", Str("Request failed"))

\* ValueError(data.get('error', 'Request failed'))
LogicalError(data) == Exc("ValueError", Get(data, "error", Str("Request failed")))

\* variant: the whole envelope is returned
UnwrapEnvelope(data) == data

\* data.get('data')
Unwrap(data) == Get(data, "data", None)

\* the body of the try block on response r: the value returned, or the
\* exception raised by urlopen, json.loads, data.get or the raise
TryBody(r) ==
    IF r.kind # "json" THEN Raised(r.exc)
    ELSE IF r.json.t # "dict"
         THEN Raised(Exc("AttributeError", Str("object has no attribute 'get'")))
    ELSE IF ~IsSuccess(r.json) THEN Raised(LogicalError(r.json))
    ELSE Returned(Unwrap(r.json))

\* variant: the handler catches transport errors only, except URLError
CaughtTransportOnly(e) == e.type \in {"URLError", "HTTPError"}

\* except (URLError, Exception): every Exception subclass is caught
Caught(e) ==
    e.type \in {"URLError", "HTTPError", "JSONDecodeError", "AttributeError",
                "ValueError", "TypeError", "Exception"}

\* variant: the register keeps the first exception
RecordFirst(prev, e) == IF prev = NoError THEN e ELSE prev

\* last_error = e: the register takes the latest exception
Record(prev, e) == e

\* variant: the generic failure is raised whatever was recorded
FinalRaiseGeneric(e) == Raised(GenericFailure)

\* raise last_error or Exception('Request failed')
FinalRaise(e) == Raised(IF e # NoError THEN e ELSE GenericFailure)

\* how the attempt went, as the log records it
Outcome(r) ==
    IF TryBody(r).kind = "value" THEN "success"
    ELSE IF r.kind = "transport" THEN "transport"
    ELSE IF r.kind = "json" /\ r.json.t = "dict" THEN "logical"
    ELSE "malformed"

RequestEvent(r) ==
    [ev |-> "request", attempt |-> attempt, method |-> method, url |-> url,
     headers |-> headers, data |-> body_data, timeout |-> timeout,
     outcome |-> IF Outcome(r) = "success" THEN "success" ELSE "failure"]

SleepEvent == [ev |-> "sleep", attempt |-> attempt, ms |-> Delay(attempt)]

\* the next iteration of the for loop, or the raise after it
LoopNext(a, e) ==
    IF a \in LoopRange(retries)
    THEN /\ pc' = "attempt"
         /\ attempt' = a
         /\ result' = NoResult
         /\ out' = NoResult
    ELSE /\ pc' = "raised"
         /\ attempt' = attempt
         /\ result' = FinalRaise(e)
         /\ out' = FinalRaise(e)

\* a facade method o calls self._request(m, p, b): lines 61-72
Request(o, a, m, p, b) ==
    /\ pc = "idle"
    /\ op' = o
    /\ args' = a
    /\ method' = m
    /\ path' = p
    /\ body' = b
    /\ url' = api_url \o p
    /\ headers' = Headers(api_key)
    /\ body_data' = BodyData(b)
    /\ last_error' = NoError
    /\ resp' = NoResponse
    /\ uniform' = TRUE
    /\ kinds' = {}
    /\ log' = <<>>
    /\ IF 0 \in LoopRange(retries)
       THEN /\ pc' = "attempt"
            /\ attempt' = 0
            /\ result' = NoResult
            /\ out' = NoResult
       ELSE /\ pc' = "raised"
            /\ attempt' = 0
            /\ result' = FinalRaise(NoError)
            /\ out' = FinalRaise(NoError)
    /\ UNCHANGED <<config, earlier>>

\* one iteration of the loop up to its sleep: lines 73-83
Attempt(r) ==
    /\ pc = "attempt"
    /\ r \in Answers[op]
    /\ resp' = r
    /\ uniform' = (uniform /\ (resp = NoResponse \/ resp = r))
    /\ kinds' = kinds \cup ({Outcome(r)} \ {"success"})
    /\ log' = Append(log, RequestEvent(r))
    /\ IF TryBody(r).kind = "value"
       THEN /\ pc' = "returned"
            /\ result' = TryBody(r)
            /\ out' = Facade(op, TryBody(r).value)
            /\ UNCHANGED <<last_error, attempt>>
       ELSE IF ~Caught(TryBody(r).error)
       THEN /\ pc' = "raised"
            /\ result' = TryBody(r)
            /\ out' = TryBody(r)
            /\ UNCHANGED <<last_error, attempt>>
       ELSE /\ last_error' = Record(last_error, TryBody(r).error)
            /\ IF ShouldSleep(attempt, retries)
               THEN /\ pc' = "sleep"
                    /\ UNCHANGED <<attempt, result, out>>
               ELSE LoopNext(attempt + 1, Record(last_error, TryBody(r).error))
    /\ UNCHANGED <<config, op, args, method, path, body, url, headers, body_data,
                   earlier>>

\* variant: the handler counts the budget down on the instance, self.retries -= 1
SleepSpendsBudget ==
    /\ pc = "sleep"
    /\ log' = Append(log, SleepEvent)
    /\ LoopNext(attempt + 1, last_error)
    /\ retries' = retries - 1
    /\ UNCHANGED <<api_url, api_key, timeout, op, args, method, path, body, url,
                   headers, body_data, last_error, resp, uniform, kinds, earlier>>

\* time.sleep(delay), then the next iteration: line 84
Sleep ==
    /\ pc = "sleep"
    /\ log' = Append(log, SleepEvent)
    /\ LoopNext(attempt + 1, last_error)
    /\ UNCHANGED <<config, op, args, method, path, body, url, headers, body_data,
                   last_error, resp, uniform, kinds, earlier>>

\* the method returns or raises to its caller; the locals of the call are gone
Return ==
    /\ pc \in {"returned", "raised"}
    /\ pc' = "idle"
    /\ op' = "none"
    /\ args' = <<>>
    /\ method' = ""
    /\ path' = <<>>
    /\ body' = None
    /\ url' = <<>>
    /\ headers' = <<>>
    /\ body_data' = None
    /\ last_error' = NoError
    /\ attempt' = 0
    /\ resp' = NoResponse
    /\ uniform' = TRUE
    /\ kinds' = {}
    /\ log' = <<>>
    /\ result' = NoResult
    /\ out' = NoResult
    /\ earlier' = (earlier \/ pc = "raised")
    /\ UNCHANGED config

----------------------------------------------------------------------------
(* The facade: one action per public method, up to its call of _request *)

\* the arguments callers pass
BaseUrls == {<<"http://pi.local">>, <<"http://pi.local", "/">>}

ApiKeys == {None, Str(""), Str("k1")}

Ids == {Str("7")}

Statuses == {None, Str(""), Str("open")}

Priorities == {None, Str(""), Str("high")}

Names == {Str("bot")}

AgentTypes == {Str("custom"), Str("worker")}

Capabilities == {None, List(<<>>), List(<<Str("code")>>)}

TaskPriorities == {Str("medium"), Str("high")}

list_agents == Request("list_agents", <<>>, "GET", <<"/api/agents">>, None)

get_agent(agent_id) ==
    Request("get_agent", <<agent_id>>, "GET", <<"/api/agents/">> \o Fmt(agent_id), None)

\* variant: capabilities is put in the body as given, without the "or []"
CreateAgentBodyRaw(name, agent_type, capabilities) ==
    Dict(<<Pair("name", name), Pair("type", agent_type),
           Pair("capabilities", capabilities)>>)

\* body = {'name': name, 'type': agent_type, 'capabilities': capabilities or []}
CreateAgentBody(name, agent_type, capabilities) ==
    Dict(<<Pair("name", name), Pair("type", agent_type),
           Pair("capabilities", IF Truthy(capabilities) THEN capabilities ELSE List(<<>>))>>)

create_agent(name, agent_type, capabilities) ==
    Request("create_agent", <<name, agent_type, capabilities>>, "POST", <<"/api/agents">>,
            CreateAgentBody(name, agent_type, capabilities))

\* variant: priority is appended before status
QueryParamsSwapped(status, priority) ==
    (IF Truthy(priority) THEN <<(<<"priority=">> \o Fmt(priority))>> ELSE <<>>)
    \o (IF Truthy(status) THEN <<(<<"status=">> \o Fmt(status))>> ELSE <<>>)

\* query_params of list_tasks: lines 112-116
QueryParams(status, priority) ==
    (IF Truthy(status) THEN <<(<<"status=">> \o Fmt(status))>> ELSE <<>>)
    \o (IF Truthy(priority) THEN <<(<<"priority=">> \o Fmt(priority))>> ELSE <<>>)

\* path of list_tasks: lines 118-120
ListTasksPath(status, priority) ==
    IF QueryParams(status, priority) # <<>>
    THEN <<"/api/tasks">> \o <<"?">> \o Join(<<"&">>, QueryParams(status, priority))
    ELSE <<"/api/tasks">>

list_tasks(status, priority) ==
    Request("list_tasks", <<status, priority>>, "GET", ListTasksPath(status, priority), None)

get_task(task_id) ==
    Request("get_task", <<task_id>>, "GET", <<"/api/tasks/">> \o Fmt(task_id), None)

create_task(name, priority) ==
    Request("create_task", <<name, priority>>, "POST", <<"/api/tasks">>,
            Dict(<<Pair("name", name), Pair("priority", priority)>>))

\* variant: both fields are always put in the body
UpdateTaskBodyBoth(status, priority) ==
    Dict(<<Pair("status", status), Pair("priority", priority)>>)

\* body of update_task: lines 141-145
UpdateTaskBody(status, priority) ==
    LET b0 == Dict(<<>>)
        b1 == IF Truthy(status) THEN SetItem(b0, "status", status) ELSE b0
    IN  IF Truthy(priority) THEN SetItem(b1, "priority", priority) ELSE b1

update_task(task_id, status, priority) ==
    Request("update_task", <<task_id, status, priority>>, "PUT", <<"/api/tasks/">> \o Fmt(task_id),
            UpdateTaskBody(status, priority))

list_providers == Request("list_providers", <<>>, "GET", <<"/api/providers">>, None)

get_metrics == Request("get_metrics", <<>>, "GET", <<"/api/metrics">>, None)

health == Request("health", <<>>, "GET", <<"/health">>, None)

----------------------------------------------------------------------------
(* The client *)

\* PiBuilderSDK(api_url, api_key, timeout, retries)
Init ==
    /\ api_url \in {RStrip(u, "/") : u \in BaseUrls}
    /\ api_key \in ApiKeys
    /\ timeout = 30
    /\ retries \in 0..MaxRetries
    /\ op = "none"
    /\ args = <<>>
    /\ method = ""
    /\ path = <<>>
    /\ body = None
    /\ url = <<>>
    /\ headers = <<>>
    /\ body_data = None
    /\ last_error = NoError
    /\ attempt = 0
    /\ pc = "idle"
    /\ resp = NoResponse
    /\ uniform = TRUE
    /\ log = <<>>
    /\ result = NoResult
    /\ out = NoResult
    /\ kinds = {}
    /\ earlier = FALSE

Next ==
    \/ list_agents
    \/ \E i \in Ids : get_agent(i)
    \/ \E n \in Names, t \in AgentTypes, c \in Capabilities : create_agent(n, t, c)
    \/ \E s \in Statuses, p \in Priorities : list_tasks(s, p)
    \/ \E i \in Ids : get_task(i)
    \/ \E n \in Names, p \in TaskPriorities : create_task(n, p)
    \/ \E i \in Ids, s \in Statuses, p \in Priorities : update_task(i, s, p)
    \/ list_providers
    \/ get_metrics
    \/ health
    \/ \E r \in Responses : Attempt(r)
    \/ Sleep
    \/ Return

Spec == Init /\ [][Next]_vars

\* each attempt and each sleep completes: urlopen returns or raises within the
\* timeout, time.sleep returns
LiveSpec ==
    /\ Spec
    /\ WF_vars(\E r \in Responses : Attempt(r))
    /\ WF_vars(Sleep)

----------------------------------------------------------------------------
(* What the log of a call shows *)

IsRequest(e) == e.ev = "request"

IsSleep(e) == e.ev = "sleep"

Requests == SelectSeq(log, IsRequest)

Sleeps == SelectSeq(log, IsSleep)

InCall == pc # "idle"

\* every attempt made so far failed logically: envelope parsed, success falsy
AllLogical ==
    /\ InCall
    /\ \A i \in 1..Len(Requests) : Requests[i].outcome = "failure"
    /\ kinds \subseteq {"logical"}

\* every attempt made so far failed, in whatever way
AllFailed ==
    InCall /\ \A i \in 1..Len(Requests) : Requests[i].outcome # "success"

\* the delays of the claim, in milliseconds: 0.1 s, 0.2 s, 0.4 s, ...
Backoff == <<100, 200, 400, 800, 1600, 3200>>

----------------------------------------------------------------------------
(* C1: for every configured retries = n, a call of _request whose attempts *)
(* all fail logically issues exactly n HTTP attempts, no more and no       *)
(* fewer, and then fails: it never has more than n attempts, it is still   *)
(* running while it has fewer, and it has ended in a raise once it has n.  *)
C1_ExactlyNAttempts ==
    AllLogical =>
        /\ Len(Requests) <= retries
        /\ (pc \in {"attempt", "sleep"} => Len(Requests) < retries)
        /\ (pc = "raised" => Len(Requests) = retries /\ result.kind = "error")
        /\ pc # "returned"

C1_Witness ==
    /\ pc = "raised"
    /\ AllLogical
    /\ retries = MaxRetries
    /\ Len(Requests) = MaxRetries

----------------------------------------------------------------------------
(* C2: in a call with retries = n the sleep after the failed attempt with  *)
(* index k lasts 2^k x 100 ms for k < n-1, there is no sleep after attempt *)
(* n-1, each sleep lies strictly between two consecutive attempts, and an  *)
(* always-failing call performs exactly n-1 sleeps.                        *)

\* the log is attempt 0, sleep 100, attempt 1, sleep 200, ...: every sleep
\* follows the failed attempt of its index and is followed by the next attempt
SleepsInterleaved ==
    \A i \in 1..Len(log) :
        /\ (i % 2 = 1) => /\ log[i].ev = "request"
                          /\ log[i].attempt = (i - 1) \div 2
        /\ (i % 2 = 0) => /\ log[i].ev = "sleep"
                          /\ log[i].attempt = (i - 2) \div 2
                          /\ log[i].attempt < retries - 1
                          /\ log[i].ms = Backoff[log[i].attempt + 1]
                          /\ log[i - 1].outcome # "success"
                          /\ (i = Len(log) => pc = "attempt")

\* a failed attempt other than the last one is followed by its sleep
FailureThenSleep ==
    \A i \in 1..Len(log) :
        (log[i].ev = "request" /\ log[i].outcome # "success"
             /\ log[i].attempt < retries - 1 /\ i = Len(log))
        => pc = "sleep"

\* the statement as claimed: n - 1 sleeps for every n
C2_Original ==
    /\ SleepsInterleaved
    /\ FailureThenSleep
    /\ (pc = "raised" => Len(Sleeps) = retries - 1)

\* amended: n - 1 sleeps for n >= 1, none for n = 0
C2_Backoff ==
    /\ SleepsInterleaved
    /\ FailureThenSleep
    /\ (pc = "raised" /\ retries >= 1 =>
            /\ Len(Sleeps) = retries - 1
            /\ \A k \in 1..Len(Sleeps) : Sleeps[k].ms = Backoff[k])
    /\ (pc = "raised" /\ retries = 0 => log = <<>>)

C2_Witness ==
    /\ pc = "raised"
    /\ retries = MaxRetries
    /\ Len(Sleeps) = MaxRetries - 1
    /\ Sleeps[1].ms = 100
    /\ Sleeps[2].ms = 200

----------------------------------------------------------------------------
(* C3: the first attempt whose envelope reports success=true ends the      *)
(* call: if attempts 1..k-1 fail and attempt k succeeds there are exactly  *)
(* k attempts and k-1 sleeps and nothing follows attempt k; a success of   *)
(* the first attempt means exactly one attempt, whatever retries is.       *)

\* the latest answer is an envelope whose success field is true
ReportsSuccess ==
    /\ resp.kind = "json"
    /\ resp.json.t = "dict"
    /\ \E i \in 1..Len(resp.json.items) : resp.json.items[i] = Pair("success", Bool(TRUE))

C3_State ==
    /\ (InCall /\ ReportsSuccess) => pc = "returned"
    /\ pc = "returned" =>
          /\ Len(Requests) = attempt + 1
          /\ Len(Sleeps) = attempt
          /\ Len(log) = 2 * attempt + 1
          /\ log[Len(log)].ev = "request"
          /\ log[Len(log)].outcome = "success"
          /\ \A i \in 1..(Len(Requests) - 1) : Requests[i].outcome # "success"
          /\ (Requests[1].outcome = "success" => log = <<Requests[1]>>)

C3_FirstSuccessEnds ==
    /\ []C3_State
    /\ [][pc = "returned" => (pc' = "idle" /\ log' = <<>>)]_vars

C3_Witness ==
    /\ pc = "returned"
    /\ ReportsSuccess
    /\ retries = MaxRetries
    /\ Len(Requests) = 2
    /\ Len(Sleeps) = 1

----------------------------------------------------------------------------
(* C4: when _request returns a value, the value is exactly the data field  *)
(* of the envelope of the successful attempt, the last attempt made,       *)
(* unmodified (None when the envelope has no data field), and that         *)
(* envelope's success field is truthy.                                     *)

\* the members of the latest envelope
Members == {resp.json.items[i] : i \in 1..Len(resp.json.items)}

C4_ReturnsData ==
    pc = "returned" =>
        /\ resp.kind = "json"
        /\ resp.json.t = "dict"
        /\ log[Len(log)].ev = "request"
        /\ log[Len(log)].outcome = "success"
        /\ result.kind = "value"
        /\ \/ Pair("data", result.value) \in Members
           \/ result.value = None /\ \A m \in Members : m.s # "data"
        /\ \E m \in Members : m.s = "success" /\ Truthy(m.items[1])

\* a success that follows a failed attempt whose envelope carried other data
C4_Witness ==
    /\ pc = "returned"
    /\ Len(Requests) = 2
    /\ result.value = List(<<Task2, Task1>>)

----------------------------------------------------------------------------
(* C5: a server that answers every attempt with {success: false,           *)
(* error: "X"} makes _request raise, once the attempts are exhausted, a    *)
(* failure whose message is "X", for every configured retries.             *)

ErrorEnvelope(x) == Parsed(Envelope(Bool(FALSE), Absent, Str(x)))

\* every attempt of the call, if any, was answered with ErrorEnvelope(x)
AlwaysAnswered(x) == uniform /\ resp \in {NoResponse, ErrorEnvelope(x)}

\* the statement as claimed: for every retries
C5_Original ==
    \A x \in {"X", "Y"} :
        (pc = "raised" /\ AlwaysAnswered(x)) => Message(result.error) = x

\* amended: for every retries >= 1
C5_ServerMessage ==
    \A x \in {"X", "Y"} :
        (pc = "raised" /\ AlwaysAnswered(x) /\ retries >= 1) =>
            /\ result.kind = "error"
            /\ Message(result.error) = x
            /\ result.error.type = "ValueError"
            /\ out = result

C5_Witness ==
    /\ pc = "raised"
    /\ retries = MaxRetries
    /\ Len(Requests) = MaxRetries
    /\ uniform
    /\ resp = ErrorEnvelope("X")
    /\ Message(result.error) = "X"

----------------------------------------------------------------------------
(* C6: when the attempts of a call fail with different errors, transport   *)
(* and logical mixed, the failure given to the caller is the error of the  *)
(* last attempt made: the last-error register is overwritten on every      *)
(* failed attempt.                                                         *)

\* the exception the latest attempt ended with
LatestError == TryBody(resp).error

C6_LastErrorWins ==
    /\ (InCall /\ AllFailed /\ Len(Requests) >= 1) => last_error = LatestError
    /\ (pc = "raised" /\ Len(Requests) >= 1) =>
            /\ result = Raised(LatestError)
            /\ out = Raised(LatestError)

\* a transport failure, then a logical failure with another message
C6_Witness ==
    /\ pc = "raised"
    /\ Len(Requests) >= 2
    /\ \A i \in 1..Len(Requests) : Requests[i].outcome = "failure"
    /\ kinds = {"transport", "logical"}
    /\ Outcome(resp) = "logical"
    /\ Message(result.error) = "Y"

----------------------------------------------------------------------------
(* C7: an API key supplied at construction makes every attempt of every    *)
(* call carry Authorization: Bearer <key>; without an API key no attempt   *)
(* carries an Authorization header; every attempt carries                  *)
(* Content-Type: application/json.                                         *)

HasHeader(e, name) == name \in DOMAIN e.headers

ContentTypeAlways ==
    \A i \in 1..Len(Requests) :
        /\ HasHeader(Requests[i], "Content-Type")
        /\ Requests[i].headers["Content-Type"] = <<"application/json">>

\* the statement as claimed: any key that was supplied, the empty one included
C7_Original ==
    /\ ContentTypeAlways
    /\ api_key # None =>
          \A i \in 1..Len(Requests) :
              /\ HasHeader(Requests[i], "Authorization")
              /\ Requests[i].headers["Authorization"] = <<"Bearer ">> \o Text(api_key.s)
    /\ api_key = None =>
          \A i \in 1..Len(Requests) : ~HasHeader(Requests[i], "Authorization")

\* amended: a non-empty key is sent on every attempt; no key or the empty
\* string sends no Authorization header
C7_AuthHeader ==
    /\ ContentTypeAlways
    /\ (api_key # None /\ api_key.s # "") =>
          \A i \in 1..Len(Requests) :
              /\ DOMAIN Requests[i].headers = {"Authorization", "Content-Type"}
              /\ Requests[i].headers["Authorization"] = <<"Bearer ", api_key.s>>
    /\ (api_key = None \/ api_key.s = "") =>
          \A i \in 1..Len(Requests) : DOMAIN Requests[i].headers = {"Content-Type"}

\* a retry of a call made with a key
C7_Witness ==
    /\ api_key = Str("k1")
    /\ Len(Requests) = MaxRetries
    /\ Requests[MaxRetries].headers["Authorization"] = <<"Bearer ", "k1">>

----------------------------------------------------------------------------
(* C8: list_agents and list_tasks, on an envelope with success=true and    *)
(* data null or absent, return an empty sequence and do not fail; on a     *)
(* non-empty data list (of agent, of task mappings) they return one record *)
(* per element, in the same order.                                         *)

ListClass == IF op = "list_agents" THEN "Agent" ELSE "Task"

\* the data of the latest envelope is null or absent
DataMissing == \A m \in Members : m.s = "data" => m.items[1] = None

\* v is a mapping that carries the fields of the dataclass
WellFormed(cls, v) ==
    /\ v.t = "dict"
    /\ \A i \in 1..Len(v.items) : v.items[i].s \in FieldSet(cls)
    /\ \A f \in Required(cls) : \E i \in 1..Len(v.items) : v.items[i].s = f

\* record rec of class cls carries what mapping v carries
SameContent(cls, rec, v) ==
    /\ rec.t = cls
    /\ \A i \in 1..Len(v.items) : v.items[i] \in {rec.items[j] : j \in 1..Len(rec.items)}

----------------------------------------------------------------------------
(* C9: update_task(id, status, priority) issues a PUT to /api/tasks/{id}   *)
(* whose body mapping has exactly the fields the caller supplied: only     *)
(* status, only priority, or both; a field not supplied is omitted, never  *)
(* sent as null.                                                            *)

\* every attempt of update_task is a PUT to /api/tasks/{id} that carries the body
PutToTask ==
    /\ method = "PUT"
    /\ path = <<"/api/tasks/", args[1].s>>
    /\ \A i \in 1..Len(Requests) :
          /\ Requests[i].method = "PUT"
          /\ Requests[i].url = api_url \o <<"/api/tasks/", args[1].s>>
          /\ body.items # <<>> => Requests[i].data = JsonBytes(body)

\* the body has the fields named in want, with the caller's values, in the
\* order status, priority
BodyHasExactly(want) ==
    /\ body.t = "dict"
    /\ {body.items[i].s : i \in 1..Len(body.items)} = want
    /\ Len(body.items) = Cardinality(want)
    /\ "status" \in want => body.items[1] = Pair("status", args[2])
    /\ "priority" \in want => body.items[Len(body.items)] = Pair("priority", args[3])

\* the statement as claimed: a field is supplied when it is not None
C9_Original ==
    (InCall /\ op = "update_task") =>
        /\ PutToTask
        /\ BodyHasExactly((IF args[2] # None THEN {"status"} ELSE {})
                          \cup (IF args[3] # None THEN {"priority"} ELSE {}))

\* amended: a field is sent when it is supplied and not the empty string
C9_UpdateBody ==
    (InCall /\ op = "update_task") =>
        /\ PutToTask
        /\ BodyHasExactly((IF args[2] # None /\ args[2].s # "" THEN {"status"} ELSE {})
                          \cup (IF args[3] # None /\ args[3].s # "" THEN {"priority"} ELSE {}))
        /\ \A i \in 1..Len(body.items) : body.items[i].items[1] # None

\* update_task(id, status="open") has sent a body with status alone
C9_Witness ==
    /\ op = "update_task"
    /\ args = <<Str("7"), Str("open"), None>>
    /\ Len(Requests) >= 1
    /\ body = Dict(<<Pair("status", Str("open"))>>)

----------------------------------------------------------------------------
(* C10: list_tasks builds its path from the optional filters: /api/tasks   *)
(* with none, /api/tasks?status=S, /api/tasks?priority=P, and              *)
(* /api/tasks?status=S&priority=P with both, status before priority, the   *)
(* pairs joined by a single '&'.                                           *)

ExpectedPath(hasStatus, hasPriority) ==
    IF hasStatus /\ hasPriority
    THEN <<"/api/tasks", "?", "status=", args[1].s, "&", "priority=", args[2].s>>
    ELSE IF hasStatus THEN <<"/api/tasks", "?", "status=", args[1].s>>
    ELSE IF hasPriority THEN <<"/api/tasks", "?", "priority=", args[2].s>>
    ELSE <<"/api/tasks">>

PathSent(p) ==
    /\ path = p
    /\ method = "GET"
    /\ \A i \in 1..Len(Requests) : Requests[i].url = api_url \o p

----------------------------------------------------------------------------
(* C11: create_agent(name) with no explicit type or capabilities sends a   *)
(* POST to /api/agents with the body {name: name, type: "custom",          *)
(* capabilities: []}; the body always has the three keys, and capabilities *)
(* is an empty list, never null, when the caller gave none.                *)

C11_CreateAgentBody ==
    (InCall /\ op = "create_agent") =>
        /\ method = "POST"
        /\ path = <<"/api/agents">>
        /\ body.t = "dict"
        /\ Len(body.items) = 3
        /\ body.items[1] = Pair("name", args[1])
        /\ body.items[2] = Pair("type", args[2])
        /\ body.items[3].s = "capabilities"
        /\ body.items[3].items[1].t = "list"
        /\ args[3] = None => body.items[3].items[1] = List(<<>>)
        /\ (args[2] = Str("custom") /\ args[3] = None) =>
              body = Dict(<<Pair("name", args[1]), Pair("type", Str("custom")),
                            Pair("capabilities", List(<<>>))>>)
        /\ \A i \in 1..Len(Requests) :
              /\ Requests[i].method = "POST"
              /\ Requests[i].url = api_url \o <<"/api/agents">>
              /\ Requests[i].data = JsonBytes(body)

\* create_agent("bot") has sent its request
C11_Witness ==
    /\ op = "create_agent"
    /\ args = <<Str("bot"), Str("custom"), None>>
    /\ Len(Requests) >= 1
    /\ Requests[1].data.items[1].items[3] = Pair("capabilities", List(<<>>))

----------------------------------------------------------------------------
(* C12: list_providers returns the providers field of the data of a        *)
(* successful GET /api/providers, or an empty list when there is no        *)
(* providers to return; it does not fail on a successful envelope, one     *)
(* whose data is null or lacks the providers field included.               *)

\* the data of the successful envelope is null or absent
NullData == result.kind = "value" /\ result.value = None

C12_ListProviders ==
    (pc = "returned" /\ op = "list_providers") =>
        /\ method = "GET"
        /\ path = <<"/api/providers">>
        /\ (result.value.t = "dict" /\ "providers" \in Keys(result.value)) =>
              out = Returned(Get(result.value, "providers", None))
        /\ (result.value.t = "dict" /\ "providers" \notin Keys(result.value)) =>
              out = Returned(List(<<>>))
        /\ NullData => out = Returned(List(<<>>))

----------------------------------------------------------------------------
(* C13: a construction error in the facade (the data of a successful       *)
(* envelope lacks a field the dataclass requires) is not retried and       *)
(* propagates at once: no attempt and no sleep follows the successful      *)
(* attempt, and the caller gets the construction failure, not a record or  *)
(* a fallback value.                                                       *)

SingleClass == IF op \in {"get_agent", "create_agent"} THEN "Agent" ELSE "Task"

SingleOps == {"get_agent", "create_agent", "get_task", "create_task", "update_task"}

\* the data _request returned lacks a required field of the dataclass
LacksField ==
    /\ pc = "returned"
    /\ op \in SingleOps
    /\ result.kind = "value"
    /\ \/ result.value.t # "dict"
       \/ \E f \in Required(SingleClass) :
              \A i \in 1..Len(result.value.items) : result.value.items[i].s # f

C13_State ==
    LacksField =>
        /\ out.kind = "error"
        /\ out.error.type = "TypeError"
        /\ out.value = None
        /\ Len(Requests) = attempt + 1
        /\ log[Len(log)].ev = "request"
        /\ log[Len(log)].outcome = "success"

C13_ConstructionError ==
    /\ []C13_State
    /\ [][LacksField => (pc' = "idle" /\ log' = <<>>)]_vars

\* get_agent got an agent without status on the first of several attempts
C13_Witness ==
    /\ op = "get_agent"
    /\ pc = "returned"
    /\ retries = MaxRetries
    /\ result.value = AgentBad
    /\ out.kind = "error"
    /\ Len(log) = 1

----------------------------------------------------------------------------
(* C14: transport failures, malformed responses and success=false          *)
(* envelopes take the same failure path: the number of attempts, the       *)
(* sleeps performed and the choice of the error given to the caller depend *)
(* only on which attempts failed, not on the kind of each failure.         *)

\* the number of attempts that failed, of whatever kind
NumFailed == Cardinality({i \in 1..Len(Requests) : Requests[i].outcome # "success"})

\* what the call has done follows from the number of failures and from where
\* the call stands; no kind of failure appears in it
C14_UniformFailurePath ==
    InCall =>
        /\ Len(Requests) = NumFailed + (IF pc = "returned" THEN 1 ELSE 0)
        /\ \A i \in 1..NumFailed : Requests[i].outcome # "success"
        /\ pc = "returned" => Len(Sleeps) = NumFailed
        /\ pc = "attempt" => Len(Sleeps) = NumFailed /\ NumFailed < retries
        /\ pc = "sleep" => Len(Sleeps) = NumFailed - 1 /\ NumFailed < retries
        /\ pc = "raised" =>
              /\ NumFailed = retries
              /\ Len(Sleeps) = (IF retries = 0 THEN 0 ELSE retries - 1)
        /\ \A k \in 1..Len(Sleeps) : Sleeps[k].ms = Backoff[k]
        /\ (NumFailed >= 1 /\ pc # "returned") => last_error = TryBody(resp).error
        /\ (NumFailed >= 1 /\ pc = "raised") => result.error = TryBody(resp).error

\* a call that failed in the three ways, one after the other
C14_Witness ==
    /\ pc = "raised"
    /\ retries = 3
    /\ Len(Requests) = 3
    /\ kinds = {"transport", "malformed", "logical"}
    /\ result.error.type = "ValueError"

----------------------------------------------------------------------------
(* C15: when _request exhausts its attempts without a success it fails     *)
(* with the last recorded error, and with the generic 'Request failed'     *)
(* error exactly when no error was recorded; with retries >= 1 the generic *)
(* fallback is unreachable, and with retries = 0 the call makes no attempt *)
(* and no sleep and fails with the generic error.                          *)

C15_FinalRaise ==
    pc = "raised" =>
        /\ result.kind = "error"
        /\ last_error # NoError => result.error = last_error
        /\ (result.error = GenericFailure) <=> (last_error = NoError)
        /\ retries >= 1 =>
              /\ last_error # NoError
              /\ result.error # GenericFailure
              /\ Len(Requests) = retries
        /\ retries = 0 =>
              /\ log = <<>>
              /\ result = Raised(Exc("Exception", Str("Request failed")))

\* a client built with retries = 0 has been called
C15_Witness ==
    /\ pc = "raised"
    /\ retries = 0
    /\ op = "health"
    /\ Message(result.error) = "Request failed"

----------------------------------------------------------------------------
(* C16: a logical failure whose envelope supplies no error message         *)
(* (success falsy and the error field absent, or present with a null       *)
(* value) makes _request raise an error with the generic message 'Request  *)
(* failed', which is the message of the terminal failure when the attempt  *)
(* is the last one.                                                        *)

\* the latest answer is an envelope with a falsy success and no error message
NoMessageFailure ==
    /\ InCall
    /\ resp.kind = "json"
    /\ resp.json.t = "dict"
    /\ \A m \in Members : m.s = "success" => ~Truthy(m.items[1])
    /\ \A m \in Members : m.s = "error" => m.items[1] = None

C16_GenericMessage ==
    NoMessageFailure =>
        /\ last_error.type = "ValueError"
        /\ Message(last_error) = "Request failed"
        /\ pc = "raised" => Message(result.error) = "Request failed"

----------------------------------------------------------------------------
(* C17: _request sends a JSON payload if and only if the body is present   *)
(* and non-empty: with body None or an empty mapping (update_task with     *)
(* neither status nor priority) every attempt goes out with no body, and   *)
(* with a non-empty mapping every attempt carries the same serialized      *)
(* payload.                                                                *)

BodyEmpty == body = None \/ (body.t = "dict" /\ body.items = <<>>)

C17_Payload ==
    InCall =>
        \A i \in 1..Len(Requests) :
            /\ BodyEmpty => Requests[i].data = None
            /\ ~BodyEmpty => /\ Requests[i].data.t = "bytes"
                             /\ Requests[i].data.items = <<body>>
            /\ Requests[i].data = Requests[1].data

\* update_task with neither status nor priority, retried to the end
C17_Witness ==
    /\ op = "update_task"
    /\ args = <<Str("7"), None, None>>
    /\ body = Dict(<<>>)
    /\ Len(Requests) = MaxRetries
    /\ Requests[MaxRetries].data = None

----------------------------------------------------------------------------
(* C18: every call of _request ends, by returning data or by raising a     *)
(* terminal failure, provided each attempt and each sleep completes: it    *)
(* ends after at most retries attempts and at most retries-1 sleeps, and   *)
(* in no third way.                                                        *)

Running == pc \in {"attempt", "sleep"}

Ended == pc \in {"returned", "raised"}

\* a call has returned a value or raised an exception, nothing in between
TwoEndings ==
    /\ pc \in {"idle", "attempt", "sleep", "returned", "raised"}
    /\ Running => result = NoResult /\ out = NoResult
    /\ pc = "returned" => result.kind = "value" /\ result.error = NoError
    /\ pc = "raised" => /\ result.kind = "error"
                        /\ result.value = None
                        /\ out = result

\* the statement as claimed: at most retries - 1 sleeps, for every retries
C18_Original ==
    /\ [](/\ TwoEndings
          /\ InCall => (Len(Requests) <= retries /\ Len(Sleeps) <= retries - 1))
    /\ (Running ~> Ended)

\* amended: at most retries - 1 sleeps when retries >= 1, none when retries = 0
C18_Terminates ==
    /\ [](/\ TwoEndings
          /\ InCall => /\ Len(Requests) <= retries
                       /\ Len(Sleeps) <= (IF retries = 0 THEN 0 ELSE retries - 1))
    /\ (Running ~> Ended)

\* a call that used every attempt and every sleep it may
C18_Witness ==
    /\ Ended
    /\ retries = MaxRetries
    /\ Len(Requests) = retries
    /\ Len(Sleeps) = retries - 1
    /\ Len(log) = 2 * MaxRetries - 1

----------------------------------------------------------------------------
(* C19: the session configuration (base URL, API key, timeout, retries) is *)
(* set at construction and left unchanged by every operation, and no state *)
(* of one call (attempt counter, last error) carries over into the next:   *)
(* each call has the full configured retries as its budget, whatever the   *)
(* calls before it did.                                                    *)

\* a call starts
Starts == pc = "idle" /\ pc' # "idle"

\* a call that follows another one runs as a first call does
FreshBudget ==
    (earlier /\ InCall) =>
        /\ Len(Requests) <= retries
        /\ Running => attempt = Len(Requests) - (IF pc = "sleep" THEN 1 ELSE 0)
        /\ pc = "raised" => Len(Requests) = retries
        /\ (AllFailed /\ Len(Requests) = 0) => last_error = NoError
        /\ timeout = 30
        /\ api_url = <<"http://pi.local">>
        /\ api_key \in ApiKeys

C19_ConfigFrame ==
    /\ []FreshBudget
    /\ [][config' = config]_vars
    /\ [][Starts => (attempt' = 0 /\ last_error' = NoError /\ log' = <<>>)]_vars

\* a call after a failed call has had all its attempts
C19_Witness ==
    /\ earlier
    /\ pc = "raised"
    /\ retries = MaxRetries
    /\ Len(Requests) = MaxRetries

====
